---- MODULE Spec2Model ----
(***************************************************************************)
(* A model of the two puzzle solvers of the repository:                    *)
(*   day_3  crossed wires: parse two wire paths, rasterize them, intersect *)
(*          them, report the closest crossing (Manhattan / combined steps) *)
(*   day_4  secure container: the two password predicates and the range    *)
(*          counter of main                                                *)
(***************************************************************************)
EXTENDS Integers, Sequences, FiniteSets, TLC

VARIABLES
    \* day_3 main: where it is, the lines read, the rasterized wires
    pc, input, wires,
    \* what the running program has printed
    out,
    \* day_4 predicates: the function called, its argument, its locals
    fn, arg, scan,
    \* day_4 main: where it is, the range iterator, the running count, the
    \* number of candidates each pass has handed to its predicate
    mpc, cur, count, tested

wire_vars == <<pc, input, wires>>
scan_vars == <<fn, arg, scan>>
count_vars == <<mpc, cur, count, tested>>
vars == <<pc, input, wires, out, fn, arg, scan, mpc, cur, count, tested>>

\* ------------------------------------------------------------------ bounds

\* The longest rasterized wire (sum of the magnitudes of a line's tokens).
MaxLen == 3

\* The largest digit of the passwords handed to the predicates one by one.
MaxDigit == 6

\* ----------------------------------------------------------------- helpers

Abs(n) == IF n < 0 THEN -n ELSE n

ToSet(s) == {s[i] : i \in 1..Len(s)}

RECURSIVE SumSeq(_)
SumSeq(s) == IF s = <<>> THEN 0 ELSE s[1] + SumSeq(Tail(s))

Min(S) == CHOOSE m \in S : \A n \in S : m <= n

\* ------------------------------------------------------------ day_3: Vec2d

Vec2d(x, y) == [x |-> x, y |-> y]

\* a bug: the absolute values forgotten
manhattan_distance_mut(v) == v.x + v.y

manhattan_distance(v) == Abs(v.x) + Abs(v.y)

add(a, b) == Vec2d(a.x + b.x, a.y + b.y)

\* ----------------------------------------------------- day_3: the parser
\* A line is the sequence of its comma-separated tokens (what split(',')
\* yields: never empty, the empty line is one empty token); a token is the
\* sequence of its characters.

I32Max == 2147483647

DirChars == {"U", "D", "L", "R"}

DigitChars == {"0", "1", "2", "3", "4", "5", "6", "7", "8", "9"}

DigitVal(c) ==
    CASE c = "0" -> 0 [] c = "1" -> 1 [] c = "2" -> 2 [] c = "3" -> 3
      [] c = "4" -> 4 [] c = "5" -> 5 [] c = "6" -> 6 [] c = "7" -> 7
      [] c = "8" -> 8 [] c = "9" -> 9

RECURSIVE DecimalValue(_, _)
DecimalValue(acc, digits) ==
    IF digits = <<>> THEN acc
    ELSE DecimalValue(10 * acc + DigitVal(digits[1]), Tail(digits))

\* RE.captures(s) is Some: ^([UDLR])(\d+$)
re_matches(s) ==
    /\ Len(s) >= 2
    /\ s[1] \in DirChars
    /\ \A i \in 2..Len(s) : s[i] \in DigitChars

\* Vec2d::from(s) returns (neither unwrap panics)
from_ok(s) == re_matches(s) /\ DecimalValue(0, Tail(s)) <= I32Max

from(s) ==
    LET direction == s[1]
        magnitude == DecimalValue(0, Tail(s))
    IN CASE direction = "U" -> Vec2d(0, magnitude)
         [] direction = "D" -> Vec2d(0, -magnitude)
         [] direction = "L" -> Vec2d(-magnitude, 0)
         [] direction = "R" -> Vec2d(magnitude, 0)

parse_ok(path) == \A i \in 1..Len(path) : from_ok(path[i])

parse(path) == [i \in 1..Len(path) |-> from(path[i])]

\* ------------------------------------------------- day_3: the rasterizer

direction_of(vertex) ==
    IF vertex.x > 0 THEN Vec2d(1, 0)
    ELSE IF vertex.x < 0 THEN Vec2d(-1, 0)
    ELSE IF vertex.y > 0 THEN Vec2d(0, 1)
    ELSE IF vertex.y < 0 THEN Vec2d(0, -1)
    ELSE Vec2d(0, 0)

line_length(vertex) == Abs(vertex.x) + Abs(vertex.y)

\* a bug: the cell pushed before the step is taken
RECURSIVE walk_mut(_, _, _)
walk_mut(pos, direction, n) ==
    IF n <= 0 THEN <<>>
    ELSE <<pos>> \o walk_mut(Vec2d(pos.x + direction.x, pos.y + direction.y),
                             direction, n - 1)

\* for _ in 0..line_length { pos = pos + direction; points.push(pos); }
RECURSIVE walk(_, _, _)
walk(pos, direction, n) ==
    IF n <= 0 THEN <<>>
    ELSE LET p == add(pos, direction)
         IN <<p>> \o walk(p, direction, n - 1)

RECURSIVE get_points_from(_, _)
get_points_from(pos, vertices) ==
    IF vertices = <<>> THEN <<>>
    ELSE LET seg == walk(pos, direction_of(vertices[1]), line_length(vertices[1]))
             end == IF seg = <<>> THEN pos ELSE seg[Len(seg)]
         IN seg \o get_points_from(end, Tail(vertices))

get_points(vertices) == get_points_from(Vec2d(0, 0), vertices)

\* ------------------------------------------------------- day_3: main

NumWires == 2

intersections(ws) == ToSet(ws[1]) \cap ToSet(ws[2])

part_one_distance(ws) == Min({manhattan_distance(p) : p \in intersections(ws)})

\* One wire's pass over the steps map: every visit of an intersection cell
\* pushes its 1-indexed step.
RECURSIVE record_steps(_, _, _, _)
record_steps(steps, cells, wire, step) ==
    IF step > Len(wire) THEN steps
    ELSE LET point == wire[step]
             next == IF point \notin cells THEN steps
                     ELSE IF point \in DOMAIN steps
                          THEN [steps EXCEPT ![point] = Append(@, step)]
                          ELSE steps @@ (point :> <<step>>)
         IN record_steps(next, cells, wire, step + 1)

RECURSIVE steps_map(_, _, _, _)
steps_map(steps, cells, ws, w) ==
    IF w > Len(ws) THEN steps
    ELSE steps_map(record_steps(steps, cells, ws[w], 1), cells, ws, w + 1)

part_two_steps(ws) ==
    LET steps == steps_map(<<>>, intersections(ws), ws, 1)
    IN Min({SumSeq(steps[p]) : p \in DOMAIN steps})

\* ------------------------------------------------------ day_3: the input

RECURSIVE ToDigits(_)
ToDigits(n) ==
    IF n < 10 THEN <<CHOOSE c \in DigitChars : DigitVal(c) = n>>
    ELSE ToDigits(n \div 10) \o <<CHOOSE c \in DigitChars : DigitVal(c) = n % 10>>

Token(d, m) == <<d>> \o ToDigits(m)

\* The well-formed lines whose magnitudes are positive and sum to exactly n.
RECURSIVE PathsOfLen(_)
PathsOfLen(n) ==
    IF n = 0 THEN {<<>>}
    ELSE UNION {{<<Token(d, m)>> \o p : p \in PathsOfLen(n - m), d \in DirChars}
                : m \in 1..n}

Paths(n) == UNION {PathsOfLen(k) : k \in 1..n}

\* The empty line, tokens the pattern rejects, zero magnitudes, a leading zero.
EdgeLines ==
    { << <<>> >>,
      << <<"R">> >>,
      << <<"X", "1">> >>,
      << <<"R", "1">>, <<"1">> >>,
      << <<"R", "0">> >>,
      << <<"U", "1">>, <<"D", "0">> >>,
      << <<"L", "0", "1">> >> }

Lines(n) == Paths(n) \cup EdgeLines

\* ------------------------------------------------ day_4: the predicates
\* The locals of one call: password, previous, valid (and repeat_count), and
\* ret: "none" while the scan runs, then the value returned.

p1_enter(password) ==
    [password |-> password \div 10, previous |-> password % 10,
     valid |-> FALSE, ret |-> "none"]

\* a bug: the comparison turned round
p1_iter_mut_less(s) ==
    LET current == s.password % 10
    IN IF current < s.previous
       THEN [s EXCEPT !.ret = "false"]
       ELSE [s EXCEPT !.valid = s.valid \/ current = s.previous,
                      !.previous = current,
                      !.password = s.password \div 10]

\* a bug: the flag overwritten by the last pair instead of accumulated
p1_iter_mut_flag(s) ==
    LET current == s.password % 10
    IN IF current > s.previous
       THEN [s EXCEPT !.ret = "false"]
       ELSE [s EXCEPT !.valid = (current = s.previous),
                      !.previous = current,
                      !.password = s.password \div 10]

\* One iteration of the while loop (password > 0).
p1_iter(s) ==
    LET current == s.password % 10
    IN IF current > s.previous
       THEN [s EXCEPT !.ret = "false"]
       ELSE [s EXCEPT !.valid = s.valid \/ current = s.previous,
                      !.previous = current,
                      !.password = s.password \div 10]

p1_exit(s) == [s EXCEPT !.ret = IF s.valid THEN "true" ELSE "false"]

RECURSIVE p1_run(_)
p1_run(s) ==
    IF s.ret # "none" THEN s.ret = "true"
    ELSE IF s.password > 0 THEN p1_run(p1_iter(s))
    ELSE p1_run(p1_exit(s))

is_valid_part_one(password) == p1_run(p1_enter(password))

p2_enter(password) ==
    [password |-> password \div 10, previous |-> password % 10,
     valid |-> FALSE, repeat_count |-> 1, ret |-> "none"]

p2_iter(s) ==
    LET current == s.password % 10
    IN IF current > s.previous
       THEN [s EXCEPT !.ret = "false"]
       ELSE IF current = s.previous
       THEN [s EXCEPT !.repeat_count = s.repeat_count + 1,
                      !.previous = current,
                      !.password = s.password \div 10]
       ELSE [s EXCEPT !.valid = s.valid \/ s.repeat_count = 2,
                      !.repeat_count = 1,
                      !.previous = current,
                      !.password = s.password \div 10]

\* a bug: the run still open when the loop ends is not judged
p2_exit_mut(s) == [s EXCEPT !.ret = IF s.valid THEN "true" ELSE "false"]

p2_exit(s) ==
    [s EXCEPT !.ret = IF s.valid \/ s.repeat_count = 2 THEN "true" ELSE "false"]

RECURSIVE p2_run(_)
p2_run(s) ==
    IF s.ret # "none" THEN s.ret = "true"
    ELSE IF s.password > 0 THEN p2_run(p2_iter(s))
    ELSE p2_run(p2_exit(s))

is_valid_part_two(password) == p2_run(p2_enter(password))

\* ------------------------------------------------------- day_4: main

range_start == 138241

range_end == 674034

\* a bug: the range's end excluded
range_has_next_mut(candidate) == candidate < range_end

\* The inclusive range's iterator has a candidate left.
range_has_next(candidate) == candidate <= range_end

\* ------------------------------------------------------ idle programs

WireIdle == pc = "idle" /\ input = <<>> /\ wires = <<>>

ScanIdle == fn = "none" /\ arg = 0 /\ scan = [ret |-> "idle"]

CountIdle ==
    mpc = "idle" /\ cur = 0 /\ count = 0 /\ tested = [one |-> 0, two |-> 0]

\* ------------------------------------------------------ day_3: the actions

WireInit ==
    /\ pc = "read"
    /\ input = <<>>
    /\ wires = <<>>
    /\ out = <<>>

\* One iteration of the loop over stdin's lines.
ReadLine(lines, limit) ==
    /\ pc = "read"
    /\ Len(input) < limit
    /\ \E l \in lines :
         /\ input' = Append(input, l)
         /\ IF parse_ok(l)
            THEN /\ wires' = Append(wires, get_points(parse(l)))
                 /\ pc' = "read"
            ELSE /\ wires' = wires
                 /\ pc' = "panic_parse"
    /\ UNCHANGED <<out, scan_vars, count_vars>>

\* a bug: the minimum of no intersection defaulted instead of aborting
PartOne_mut ==
    /\ pc = "read"
    /\ IF Len(wires) < NumWires
       THEN pc' = "panic_index" /\ out' = out
       ELSE /\ out' = Append(out, <<"Part 1: distance",
                        IF intersections(wires) = {} THEN 0
                        ELSE part_one_distance(wires)>>)
            /\ pc' = "part2"
    /\ UNCHANGED <<input, wires, scan_vars, count_vars>>

\* End of input, then the intersections and the first answer.
PartOne ==
    /\ pc = "read"
    /\ IF Len(wires) < NumWires
       THEN pc' = "panic_index" /\ out' = out
       ELSE IF intersections(wires) = {}
       THEN pc' = "panic_part1" /\ out' = out
       ELSE /\ out' = Append(out, <<"Part 1: distance", part_one_distance(wires)>>)
            /\ pc' = "part2"
    /\ UNCHANGED <<input, wires, scan_vars, count_vars>>

PartTwo ==
    /\ pc = "part2"
    /\ out' = Append(out, <<"Part 2: steps", part_two_steps(wires)>>)
    /\ pc' = "done"
    /\ UNCHANGED <<input, wires, scan_vars, count_vars>>

Init == WireInit /\ ScanIdle /\ CountIdle

\* The wire program on at most two lines of input.
Next ==
    \/ ReadLine(Lines(MaxLen), NumWires)
    \/ PartOne
    \/ PartTwo

Spec == Init /\ [][Next]_vars

\* The wire program on input that may hold one line more than the two wires.
NextStdin ==
    \/ ReadLine(Lines(MaxLen - 1), NumWires + 1)
    \/ PartOne
    \/ PartTwo

SpecStdin == Init /\ [][NextStdin]_vars

\* ------------------------------------------- day_4: the predicates, called

NumDigits == 6

RECURSIVE FromDigits(_, _)
FromDigits(acc, d) ==
    IF d = <<>> THEN acc ELSE FromDigits(10 * acc + d[1], Tail(d))

\* The six-digit integers whose digits are at most MaxDigit.
Passwords ==
    {FromDigits(0, d) : d \in {e \in [1..NumDigits -> 0..MaxDigit] : e[1] >= 1}}

ScanInit ==
    /\ fn \in {"one", "two"}
    /\ arg \in Passwords
    /\ scan = [ret |-> "idle"]
    /\ out = <<>>
    /\ WireIdle
    /\ CountIdle

Enter ==
    /\ scan.ret = "idle"
    /\ scan' = IF fn = "one" THEN p1_enter(arg) ELSE p2_enter(arg)
    /\ UNCHANGED <<fn, arg, out, wire_vars, count_vars>>

Iter ==
    /\ scan.ret = "none"
    /\ scan.password > 0
    /\ scan' = IF fn = "one" THEN p1_iter(scan) ELSE p2_iter(scan)
    /\ UNCHANGED <<fn, arg, out, wire_vars, count_vars>>

Exit ==
    /\ scan.ret = "none"
    /\ ~(scan.password > 0)
    /\ scan' = IF fn = "one" THEN p1_exit(scan) ELSE p2_exit(scan)
    /\ UNCHANGED <<fn, arg, out, wire_vars, count_vars>>

NextScan == Enter \/ Iter \/ Exit

SpecScan == ScanInit /\ [][NextScan]_vars

\* ------------------------------------------------- day_4: main's actions

CountInit ==
    /\ mpc = "part_one"
    /\ cur = range_start
    /\ count = 0
    /\ tested = [one |-> 0, two |-> 0]
    /\ out = <<>>
    /\ WireIdle
    /\ ScanIdle

\* The iterator yields one candidate and the filter's closure judges it.
FilterOne ==
    /\ mpc = "part_one"
    /\ range_has_next(cur)
    /\ count' = IF is_valid_part_one(cur) THEN count + 1 ELSE count
    /\ cur' = cur + 1
    /\ tested' = [tested EXCEPT !.one = @ + 1]
    /\ UNCHANGED <<mpc, out, wire_vars, scan_vars>>

PrintOne ==
    /\ mpc = "part_one"
    /\ ~range_has_next(cur)
    /\ out' = Append(out, <<"Part one. Count", count>>)
    /\ mpc' = "part_two"
    /\ cur' = range_start
    /\ count' = 0
    /\ UNCHANGED <<tested, wire_vars, scan_vars>>

FilterTwo ==
    /\ mpc = "part_two"
    /\ range_has_next(cur)
    /\ count' = IF is_valid_part_two(cur) THEN count + 1 ELSE count
    /\ cur' = cur + 1
    /\ tested' = [tested EXCEPT !.two = @ + 1]
    /\ UNCHANGED <<mpc, out, wire_vars, scan_vars>>

PrintTwo ==
    /\ mpc = "part_two"
    /\ ~range_has_next(cur)
    /\ out' = Append(out, <<"Part two: Count", count>>)
    /\ mpc' = "done"
    /\ UNCHANGED <<cur, count, tested, wire_vars, scan_vars>>

NextCount == FilterOne \/ PrintOne \/ FilterTwo \/ PrintTwo

SpecCount == CountInit /\ [][NextCount]_vars


\* ================================================================ claims
\* ---------------------------------------------------- day_3: vocabulary

Origin == [x |-> 0, y |-> 0]

Visits(wire, c) == {i \in 1..Len(wire) : wire[i] = c}

\* The cells that occur in both of the first two wires.
CommonCells ==
    {c \in {wires[1][i] : i \in 1..Len(wires[1])} :
        \E j \in 1..Len(wires[2]) : wires[2][j] = c}

Dist(c) == (IF c.x < 0 THEN -c.x ELSE c.x) + (IF c.y < 0 THEN -c.y ELSE c.y)

FirstVisit(wire, c) == CHOOSE i \in Visits(wire, c) : \A j \in Visits(wire, c) : i <= j

Rasterize(l) == get_points(parse(l))

ExampleA == <<Token("R", 8), Token("U", 5), Token("L", 5), Token("D", 3)>>

ExampleB == <<Token("U", 7), Token("R", 6), Token("D", 4), Token("L", 4)>>

ExampleDistance == part_one_distance(<<Rasterize(ExampleA), Rasterize(ExampleB)>>)

ExamplePoints == Rasterize(ExampleA)

\* C1: the printed Part 2 value is the minimum, over the cells common to the
\* two wires, of the sum of each wire's FIRST 1-indexed visit of the cell.
C1_FirstVisitSteps ==
    pc = "done" =>
        out[2] = <<"Part 2: steps",
                   Min({FirstVisit(wires[1], c) + FirstVisit(wires[2], c)
                        : c \in CommonCells})>>

\* C2: the intersection set is exactly the set of cells that occur in both
\* rasterized wires, and the printed Part 1 value is the least |x|+|y| over
\* that set (6 for R8,U5,L5,D3 / U7,R6,D4,L4).
C2_ClosestByManhattan ==
    /\ Len(wires) >= NumWires =>
         LET common == CommonCells
         IN /\ intersections(wires) = common
            /\ pc \in {"part2", "done"} =>
                 /\ out[1][1] = "Part 1: distance"
                 /\ \E c \in common : Dist(c) = out[1][2]
                 /\ \A c \in common : out[1][2] <= Dist(c)
    /\ ExampleDistance = 6

\* The first answer is out, and two common cells lie at different distances,
\* one of them on the negative side of an axis.
C2_Witness ==
    /\ pc = "part2"
    /\ \E c, d \in CommonCells : Dist(c) < Dist(d) /\ (c.x < 0 \/ c.y < 0)

\* C3: the origin is never a cell of a rasterized wire, hence never an
\* intersection, and the Part 1 distance is never 0.
C3_OriginExcluded ==
    /\ \A w \in 1..Len(wires) : Visits(wires[w], Origin) = {}
    /\ Len(out) >= 1 => out[1][2] # 0

\* The length of the k first segments of a displacement sequence, and their sum.
RECURSIVE PrefixLen(_, _)
PrefixLen(v, k) ==
    IF k = 0 THEN 0
    ELSE PrefixLen(v, k - 1)
         + (IF v[k].x < 0 THEN -v[k].x ELSE v[k].x)
         + (IF v[k].y < 0 THEN -v[k].y ELSE v[k].y)

RECURSIVE PrefixSum(_, _)
PrefixSum(v, k) ==
    IF k = 0 THEN Origin
    ELSE [x |-> PrefixSum(v, k - 1).x + v[k].x, y |-> PrefixSum(v, k - 1).y + v[k].y]

UnitWalk(v, pts) ==
    /\ Len(pts) = PrefixLen(v, Len(v))
    /\ pts # <<>> => Dist(pts[1]) = 1
    /\ \A i \in 1..(Len(pts) - 1) :
         Dist([x |-> pts[i + 1].x - pts[i].x, y |-> pts[i + 1].y - pts[i].y]) = 1
    /\ \A k \in 1..Len(v) :
         LET n == PrefixLen(v, k) IN n >= 1 => pts[n] = PrefixSum(v, k)
    /\ pts # <<>> => pts[Len(pts)] = PrefixSum(v, Len(v))

ExampleWalk ==
    /\ Len(ExamplePoints) = 21
    /\ ExamplePoints[1] = [x |-> 1, y |-> 0]
    /\ ExamplePoints[21] = [x |-> 3, y |-> 2]
    /\ UnitWalk(parse(ExampleA), ExamplePoints)

\* C4: get_points returns sum(|dx|+|dy|) cells, the first one unit from the
\* origin, consecutive cells one unit apart along one axis, the cell ending
\* the k-th segment the sum of the first k displacements, the last cell the
\* sum of them all (21 cells ending at (3,2) for R8,U5,L5,D3).
C4_UnitWalk ==
    /\ \A w \in 1..Len(wires) : UnitWalk(parse(input[w]), wires[w])
    /\ ExampleWalk

\* A wire of several segments that turns, as long as the bound allows.
C4_Witness ==
    \E w \in 1..Len(wires) :
        /\ Len(input[w]) >= 2
        /\ Len(wires[w]) = MaxLen
        /\ wires[w][Len(wires[w])].x # 0
        /\ wires[w][Len(wires[w])].y # 0

\* C8: two well-formed wires that share no cell abort the program where the
\* Part 1 minimum is taken, nothing printed; two that share a cell get both
\* lines printed, Part 1 then Part 2, and a normal end.
C8_AbortOrBothLines ==
    /\ pc \in {"panic_parse", "panic_index", "panic_part1"} => out = <<>>
    /\ (Len(wires) = NumWires /\ pc # "read") =>
         IF CommonCells = {}
         THEN pc = "panic_part1"
         ELSE \/ pc = "part2" /\ Len(out) = 1 /\ out[1][1] = "Part 1: distance"
              \/ /\ pc = "done"
                 /\ Len(out) = 2
                 /\ out[1][1] = "Part 1: distance"
                 /\ out[2][1] = "Part 2: steps"

\* Two well-formed, non-empty wires without a common cell: the abort.
C8_Witness ==
    /\ pc = "panic_part1"
    /\ Len(wires) = NumWires
    /\ wires[1] # <<>>
    /\ wires[2] # <<>>

\* C10: only two lines are read, so both answers come from the two first
\* wires alone, whatever else stands on standard input.
C10_AnswersFromTwoWires ==
    pc = "done" =>
        /\ out[1][2] = part_one_distance(SubSeq(wires, 1, NumWires))
        /\ out[2][2] = part_two_steps(SubSeq(wires, 1, NumWires))

\* ---------------------------------------------------- day_4: vocabulary

RECURSIVE Pow10(_)
Pow10(k) == IF k = 0 THEN 1 ELSE 10 * Pow10(k - 1)

\* The i-th digit of n from the left, n read as NumDigits digits.
Digit(n, i) == (n \div Pow10(NumDigits - i)) % 10

NonDecreasing(n) == \A i \in 1..(NumDigits - 1) : Digit(n, i) <= Digit(n, i + 1)

HasDouble(n) == \E i \in 1..(NumDigits - 1) : Digit(n, i) = Digit(n, i + 1)

\* A maximal run of exactly two equal digits starts at position i.
ExactPairAt(n, i) ==
    /\ Digit(n, i) = Digit(n, i + 1)
    /\ i = 1 \/ Digit(n, i - 1) # Digit(n, i)
    /\ i + 1 = NumDigits \/ Digit(n, i + 2) # Digit(n, i)

HasExactPair(n) == \E i \in 1..(NumDigits - 1) : ExactPairAt(n, i)

Returned == scan.ret \in {"true", "false"}

\* C5: is_valid_part_two accepts a six-digit integer exactly when its digits
\* never decrease from left to right and some maximal run of equal digits has
\* length exactly 2, the leading run judged like every other.
C5_PartTwoExactPair ==
    /\ (fn = "two" /\ Returned) =>
         (scan.ret = "true" <=> (NonDecreasing(arg) /\ HasExactPair(arg)))
    /\ is_valid_part_two(112233)
    /\ ~is_valid_part_two(123444)
    /\ is_valid_part_two(111122)
    /\ is_valid_part_two(112222)

\* Accepted on the strength of the leading run alone, closed after the loop.
C5_Witness ==
    /\ fn = "two"
    /\ scan.ret = "true"
    /\ ExactPairAt(arg, 1)
    /\ \A i \in 2..(NumDigits - 1) : ~ExactPairAt(arg, i)

\* C6: is_valid_part_one accepts a six-digit integer exactly when its digits
\* never decrease from left to right and two adjacent digits are equal.
C6_PartOneDouble ==
    /\ (fn = "one" /\ Returned) =>
         (scan.ret = "true" <=> (NonDecreasing(arg) /\ HasDouble(arg)))
    /\ is_valid_part_one(111111)
    /\ ~is_valid_part_one(223450)
    /\ ~is_valid_part_one(123789)

\* Accepted for a double that is not the last pair scanned.
C6_Witness ==
    /\ fn = "one"
    /\ scan.ret = "true"
    /\ Digit(arg, 1) # Digit(arg, 2)
    /\ HasDouble(arg)

\* Rejected for want of a double alone: the digits never decrease.
C6_NoDoubleReached ==
    fn = "one" /\ scan.ret = "false" /\ NonDecreasing(arg) /\ ~HasDouble(arg)

Scanning == fn = "one" /\ scan.ret = "none" /\ scan.password > 0

\* C9 as stated: the scan of is_valid_part_one returns false as soon as the
\* more significant digit is SMALLER than the digit to its right.
C9_ReturnsOnSmaller ==
    [][(Scanning /\ scan.password % 10 < scan.previous) => scan'.ret = "false"]_vars

\* C9 amended: the scan of is_valid_part_one returns false as soon as the
\* more significant digit is GREATER than the digit to its right.
C9_ReturnsOnGreater ==
    [][(Scanning /\ scan.password % 10 > scan.previous) => scan'.ret = "false"]_vars

\* Returned false on a decreasing pair with digits still unscanned.
C9_Witness ==
    /\ fn = "one"
    /\ scan.ret = "false"
    /\ scan.password >= 10
    /\ scan.password % 10 > scan.previous

\* C7: both passes hand every integer of 138241..674034 to their predicate,
\* endpoints included, none skipped; part one prints 1890, part two 1277.
C7_RangeCounts ==
    /\ mpc = "part_one" =>
         /\ out = <<>>
         /\ tested.two = 0
         /\ cur = 138241 + tested.one
         /\ cur <= 674034 + 1
    /\ mpc = "part_two" =>
         /\ out = << <<"Part one. Count", 1890>> >>
         /\ tested.one = 674034 - 138241 + 1
         /\ cur = 138241 + tested.two
         /\ cur <= 674034 + 1
    /\ mpc = "done" =>
         /\ out = << <<"Part one. Count", 1890>>, <<"Part two: Count", 1277>> >>
         /\ tested.one = 674034 - 138241 + 1
         /\ tested.two = 674034 - 138241 + 1

\* Both counts printed.
C7_Witness == mpc = "done" /\ Len(out) = 2 /\ tested.two = 535794

====
